---- MODULE Spec2Model ----
(***************************************************************************)
(* Model of nanobot/providers/custom_provider.py: the CustomProvider       *)
(* adapter for OpenAI-compatible endpoints.  The program state is the      *)
(* adapter's fields; the endpoint is the environment, whose replies are    *)
(* drawn from small sets.  Spec is the externally-serialized use of one    *)
(* adapter (every call runs to completion before the next starts);         *)
(* SpecConc lets coroutines interleave at their await points.              *)
(***************************************************************************)
EXTENDS Integers, Sequences, FiniteSets, TLC

VARIABLES default_model,     \* self.default_model
          current_model,     \* self._current_model
          available_models,  \* self._available_models
          models_loaded,     \* self._models_loaded
          list_fetches,      \* GET /models requests issued by list_models so far
          last_fetch,        \* what the endpoint did with the latest GET /models
          ret,               \* the latest completed call: arguments, requests, result
          tasks              \* coroutines suspended at an await (SpecConc)

vars == <<default_model, current_model, available_models, models_loaded,
          list_fetches, last_fetch, ret, tasks>>

adapter == <<default_model, current_model, available_models, models_loaded>>

----------------------------------------------------------------------------
(* Bounds *)

MaxCatalog == 2     \* longest model list the endpoint returns
TokBound   == 1     \* max_tokens ranges over -TokBound..TokBound
MaxTasks   == 2     \* coroutines in flight at once (SpecConc)

DefaultMaxTokens == 4096

----------------------------------------------------------------------------
(* Values *)

None == "<None>"                       \* Python None where a str is expected

ModelNames == {"", "default", "gpt-x"}     \* names handed to set_model

ModelIds == {"default", "gpt-x"}           \* ids the endpoint lists

Range(s) == {s[i] : i \in 1..Len(s)}

SeqsUpTo(S, n) == UNION {[1..k -> S] : k \in 0..n}

Max(a, b) == IF a >= b THEN a ELSE b

\* Python truthiness of an Optional[str]
Truthy(x) == x # None /\ x # ""

\* What the endpoint does with GET /models: it fails (any Exception out of
\* client.models.list() or out of reading the reply) or it replies with
\* response.data, a list of objects that carry an id.
FetchOutcomes ==
    {[ok |-> FALSE, data |-> <<>>]} \cup
    {[ok |-> TRUE, data |-> d] : d \in SeqsUpTo([id : ModelIds], MaxCatalog)}

NoFetchYet == [ok |-> FALSE, data |-> <<>>, attempted |-> FALSE]

Attempt(o) == [ok |-> o.ok, data |-> o.data, attempted |-> TRUE]

----------------------------------------------------------------------------
(* Model catalog *)

\* _fetch_models with the listing turned around.
FetchModelsReversed(o) ==
    IF o.ok THEN [i \in 1..Len(o.data) |-> o.data[Len(o.data) + 1 - i].id] ELSE <<>>

\* _fetch_models: the ids in server order, [] on any Exception.
FetchModels(o) ==
    IF o.ok THEN [i \in 1..Len(o.data) |-> o.data[i].id] ELSE <<>>

\* _ensure_models_loaded without its guard.
NeedsLoadAlways(loaded) == TRUE

\* _ensure_models_loaded: the guard of the one-time load.
NeedsLoad(loaded) == ~loaded

\* set_model that never consults the catalog.
SetModelAcceptsUnverified(loaded, avail, model_name) == model_name # ""

\* set_model that consults the catalog whether or not it was loaded.
SetModelAcceptsListedOnly(loaded, avail, model_name) == model_name \in Range(avail)

\* set_model that takes an empty catalog for one not loaded (`if self._available_models`).
SetModelAcceptsEmptyAsUnloaded(loaded, avail, model_name) ==
    IF avail # <<>> THEN model_name \in Range(avail) ELSE model_name # ""

\* set_model: whether model_name is accepted.
SetModelAccepts(loaded, avail, model_name) ==
    IF loaded THEN model_name \in Range(avail) ELSE model_name # ""

\* refresh_models: _fetch_models has already swallowed every Exception, so
\* the try body always runs to `return True`; the except arm is dead.
RefreshReturn(o) == TRUE


----------------------------------------------------------------------------
(* Chat *)

TokenInputs == ((0 - TokBound)..TokBound) \cup {DefaultMaxTokens}

ModelOverrides == {None, "", "gpt-x"}

ToolInputs == {<<>>, <<"search">>}       \* None behaves as the empty list

\* kwargs["model"] as `model if model is not None else self._current_model`
RequestModelNotNone(model, current) == IF model # None THEN model ELSE current

\* kwargs["model"]: `model or self._current_model`
RequestModel(model, current) == IF Truthy(model) THEN model ELSE current

\* kwargs["max_tokens"] as `max(0, max_tokens)`
ClampTokensAtZero(max_tokens) == Max(0, max_tokens)

\* kwargs["max_tokens"]: `max(1, max_tokens)`
ClampTokens(max_tokens) == Max(1, max_tokens)

\* kwargs as handed to chat.completions.create; an absent key is None / <<>>.
ChatKwargs(current, model, max_tokens, tools) ==
    [model       |-> RequestModel(model, current),
     max_tokens  |-> ClampTokens(max_tokens),
     tools       |-> tools,
     tool_choice |-> IF tools # <<>> THEN "auto" ELSE None]

NoRequest == [model |-> None, max_tokens |-> 0, tools |-> <<>>, tool_choice |-> None]

\* The record of a call: its arguments, the GET /models requests it issued,
\* the chat request it transmitted, whether it raised, what it returned.
Call(op, arg, fetched, request, raised, value) ==
    [op |-> op, arg |-> arg, fetched |-> fetched, sent |-> request,
     raised |-> raised, value |-> value]

NoCall == Call("none", None, 0, NoRequest, FALSE, None)

\* json_repair.loads on the argument strings the endpoint sends here.
JsonRepairLoads(text) ==
    CASE text = "{\"q\": \"x\"}"  -> [kind |-> "dict", items |-> {<<"q", "x">>}]
      [] text = "{\"q\": \"x\",}" -> [kind |-> "dict", items |-> {<<"q", "x">>}]
      [] text = "{}"              -> [kind |-> "dict", items |-> {}]
      [] OTHER                    -> [kind |-> "str", text |-> ""]

StrArg(text) == [is_str |-> TRUE, text |-> text, value |-> [kind |-> "str", text |-> ""]]
ObjArg(value) == [is_str |-> FALSE, text |-> "", value |-> value]

WireToolCall(id, name, arguments) ==
    [id |-> id, function |-> [name |-> name, arguments |-> arguments]]

NoUsage == [present |-> FALSE, prompt_tokens |-> 0, completion_tokens |-> 0, total_tokens |-> 0]
SomeUsage == [present |-> TRUE, prompt_tokens |-> 3, completion_tokens |-> 2, total_tokens |-> 5]

NullMessage == [present |-> FALSE, content |-> None, has_tool_calls |-> FALSE,
                tool_calls |-> <<>>, reasoning_content |-> None]

Message(content, has_tool_calls, tool_calls, reasoning_content) ==
    [present |-> TRUE, content |-> content, has_tool_calls |-> has_tool_calls,
     tool_calls |-> tool_calls, reasoning_content |-> reasoning_content]

Choice(message, finish_reason) == [message |-> message, finish_reason |-> finish_reason]

TwoCalls == <<WireToolCall("c1", "search", StrArg("{\"q\": \"x\",}")),
              WireToolCall("c2", "search", ObjArg([kind |-> "dict", items |-> {}]))>>

\* Replies of POST /chat/completions that reach _parse.
Responses ==
    { [choices |-> <<>>, usage |-> NoUsage],
      [choices |-> <<Choice(NullMessage, "stop")>>, usage |-> NoUsage],
      [choices |-> <<Choice(Message("Error: hi", TRUE, <<>>, ""), None)>>, usage |-> NoUsage],
      [choices |-> <<Choice(Message(None, TRUE, TwoCalls, "think"), "tool_calls")>>,
       usage |-> SomeUsage],
      [choices |-> <<Choice(Message("partial", TRUE, TwoCalls, None), "error")>>,
       usage |-> NoUsage] }

\* What the endpoint does with POST /chat/completions: the client raises
\* (transport, authentication) or hands back a response object.
ChatOutcomes ==
    {[raises |-> TRUE, msg |-> m, response |-> [choices |-> <<>>, usage |-> NoUsage]] :
        m \in {"Connection error.", ""}} \cup
    {[raises |-> FALSE, msg |-> "", response |-> r] : r \in Responses}

\* LLMResponse (nanobot/providers/base.py): the fields and their defaults.
LLMResponse(content, tool_calls, finish_reason, usage, reasoning_content) ==
    [content |-> content, tool_calls |-> tool_calls, finish_reason |-> finish_reason,
     usage |-> usage, reasoning_content |-> reasoning_content]

DefaultToolCalls == <<>>
DefaultUsage == {}

ToolCallRequest(tc) ==
    [id |-> tc.id, name |-> tc.function.name,
     arguments |-> IF tc.function.arguments.is_str
                   THEN JsonRepairLoads(tc.function.arguments.text)
                   ELSE tc.function.arguments.value]

\* _parse: the exception it raises, as str(e), or "" when it returns.
ParseError(response) ==
    IF response.choices = <<>> THEN "list index out of range"
    ELSE IF ~response.choices[1].message.present
         THEN "'NoneType' object has no attribute 'tool_calls'"
         ELSE ""

ParseRaises(response) ==
    response.choices = <<>> \/ ~response.choices[1].message.present

\* _parse: the LLMResponse built from a response it accepts.
Parse(response) ==
    LET choice == response.choices[1]
        msg    == choice.message
        calls  == IF msg.has_tool_calls THEN msg.tool_calls ELSE <<>>
        u      == response.usage
    IN  LLMResponse(
          msg.content,
          [i \in 1..Len(calls) |-> ToolCallRequest(calls[i])],
          IF Truthy(choice.finish_reason) THEN choice.finish_reason ELSE "stop",
          IF u.present
            THEN {<<"prompt_tokens", u.prompt_tokens>>,
                  <<"completion_tokens", u.completion_tokens>>,
                  <<"total_tokens", u.total_tokens>>}
            ELSE {},
          IF Truthy(msg.reasoning_content) THEN msg.reasoning_content ELSE None)

\* The except arm of chat: LLMResponse(content=f"Error: {e}", finish_reason="error")
ChatErrorResponse(e) ==
    LLMResponse("Error: " \o e, DefaultToolCalls, "error", DefaultUsage, None)

\* chat with _parse after the try block: its exceptions reach the caller.
ChatResultParseOutsideTry(o) ==
    [raised |-> ~o.raises /\ ParseRaises(o.response),
     value  |-> IF o.raises THEN ChatErrorResponse(o.msg)
                ELSE IF ParseRaises(o.response) THEN ChatErrorResponse("")
                ELSE Parse(o.response)]

\* chat, from the awaited create(**kwargs) on: what the call hands its caller.
\* Both the request and _parse run inside the try, whose except arm catches
\* every Exception and returns.
ChatResult(o) ==
    LET failed == o.raises \/ ParseRaises(o.response)
        e      == IF o.raises THEN o.msg ELSE ParseError(o.response)
    IN  [raised |-> FALSE,
         value  |-> IF failed THEN ChatErrorResponse(e) ELSE Parse(o.response)]


----------------------------------------------------------------------------
(* The adapter after construction *)

Idle == [op |-> "idle"]

AllIdle == \A t \in 1..MaxTasks : tasks[t] = Idle

Init ==
    /\ default_model = "default"
    /\ current_model = default_model
    /\ available_models = <<>>
    /\ models_loaded = FALSE
    /\ list_fetches = 0
    /\ last_fetch = NoFetchYet
    /\ ret = NoCall
    /\ tasks = [t \in 1..MaxTasks |-> Idle]

----------------------------------------------------------------------------
(* Calls that run to completion *)

\* list_models: _ensure_models_loaded, then a copy of the catalog.
ListModels ==
    /\ AllIdle
    /\ IF NeedsLoad(models_loaded)
         THEN /\ \E o \in FetchOutcomes :
                   /\ available_models' = FetchModels(o)
                   /\ last_fetch' = Attempt(o)
              /\ models_loaded' = TRUE
              /\ list_fetches' = list_fetches + 1
         ELSE UNCHANGED <<available_models, models_loaded, list_fetches, last_fetch>>
    /\ ret' = Call("list_models", None, list_fetches' - list_fetches, NoRequest,
                   FALSE, available_models')
    /\ UNCHANGED <<default_model, current_model, tasks>>

\* refresh_models: always one fetch, the catalog replaced, the flag set.
RefreshModels ==
    /\ AllIdle
    /\ \E o \in FetchOutcomes :
         /\ available_models' = FetchModels(o)
         /\ last_fetch' = Attempt(o)
         /\ ret' = Call("refresh_models", None, 1, NoRequest, FALSE, RefreshReturn(o))
    /\ models_loaded' = TRUE
    /\ UNCHANGED <<default_model, current_model, list_fetches, tasks>>

\* set_model
SetModel ==
    \E model_name \in ModelNames :
      LET accepted == SetModelAccepts(models_loaded, available_models, model_name)
      IN  /\ current_model' = IF accepted THEN model_name ELSE current_model
          /\ ret' = Call("set_model", model_name, 0, NoRequest, FALSE, accepted)
          /\ UNCHANGED <<default_model, available_models, models_loaded,
                         list_fetches, last_fetch, tasks>>

\* chat: one request built from the arguments and the current model, one
\* reply turned into an LLMResponse.  No field of the adapter is assigned.
\* messages (through the inherited _sanitize_empty_content) and temperature
\* go into kwargs as they are and decide nothing below; the caller cancelling
\* the coroutine (a BaseException) is not a reply of the endpoint.
Chat ==
    /\ AllIdle
    /\ \E model \in ModelOverrides, max_tokens \in TokenInputs, tools \in ToolInputs,
          o \in ChatOutcomes :
         LET r == ChatResult(o)
         IN  ret' = Call("chat",
                         [model |-> model, max_tokens |-> max_tokens, tools |-> tools,
                          outcome |-> o],
                         0, ChatKwargs(current_model, model, max_tokens, tools),
                         r.raised, r.value)
    /\ UNCHANGED <<default_model, current_model, available_models, models_loaded,
                   list_fetches, last_fetch, tasks>>

\* get_default_model, get_current_model
GetModel ==
    /\ AllIdle
    /\ \E op \in {"get_default_model", "get_current_model"} :
         ret' = Call(op, None, 0, NoRequest, FALSE,
                     IF op = "get_default_model" THEN default_model ELSE current_model)
    /\ UNCHANGED <<default_model, current_model, available_models, models_loaded,
                   list_fetches, last_fetch, tasks>>

Next == ListModels \/ RefreshModels \/ SetModel \/ Chat \/ GetModel

Spec == Init /\ [][Next]_vars

----------------------------------------------------------------------------
(* Calls that interleave at their await points.  A coroutine runs without  *)
(* interruption up to `await self._fetch_models()` and again from the      *)
(* reply to its return.  chat assigns no field and reads current_model     *)
(* only before its await, so it is left out of the interleaving.           *)

Awaiting(op) == [op |-> op]

\* list_models up to the await in _ensure_models_loaded (or to its return
\* when the flag is already set).
ListModelsCall(t) ==
    /\ tasks[t] = Idle
    /\ IF NeedsLoad(models_loaded)
         THEN /\ tasks' = [tasks EXCEPT ![t] = Awaiting("list_models")]
              /\ list_fetches' = list_fetches + 1
              /\ UNCHANGED ret
         ELSE /\ ret' = Call("list_models", None, 0, NoRequest, FALSE, available_models)
              /\ UNCHANGED <<tasks, list_fetches>>
    /\ UNCHANGED <<default_model, current_model, available_models, models_loaded, last_fetch>>

\* list_models from the reply of its fetch to its return.
ListModelsResume(t) ==
    /\ tasks[t] = Awaiting("list_models")
    /\ \E o \in FetchOutcomes :
         /\ available_models' = FetchModels(o)
         /\ last_fetch' = Attempt(o)
    /\ models_loaded' = TRUE
    /\ ret' = Call("list_models", None, 1, NoRequest, FALSE, available_models')
    /\ tasks' = [tasks EXCEPT ![t] = Idle]
    /\ UNCHANGED <<default_model, current_model, list_fetches>>

\* refresh_models up to its await.
RefreshModelsCall(t) ==
    /\ tasks[t] = Idle
    /\ tasks' = [tasks EXCEPT ![t] = Awaiting("refresh_models")]
    /\ UNCHANGED <<default_model, current_model, available_models, models_loaded,
                   list_fetches, last_fetch, ret>>

\* refresh_models from the reply of its fetch to its return.
RefreshModelsResume(t) ==
    /\ tasks[t] = Awaiting("refresh_models")
    /\ \E o \in FetchOutcomes :
         /\ available_models' = FetchModels(o)
         /\ last_fetch' = Attempt(o)
         /\ ret' = Call("refresh_models", None, 1, NoRequest, FALSE, RefreshReturn(o))
    /\ models_loaded' = TRUE
    /\ tasks' = [tasks EXCEPT ![t] = Idle]
    /\ UNCHANGED <<default_model, current_model, list_fetches>>

NextConc ==
    \/ \E t \in 1..MaxTasks : ListModelsCall(t)
    \/ \E t \in 1..MaxTasks : ListModelsResume(t)
    \/ \E t \in 1..MaxTasks : RefreshModelsCall(t)
    \/ \E t \in 1..MaxTasks : RefreshModelsResume(t)
    \/ SetModel

SpecConc == Init /\ [][NextConc]_vars

----------------------------------------------------------------------------
(* Properties *)

HasPrefix(str, prefix) ==
    Len(str) >= Len(prefix) /\ SubSeq(str, 1, Len(prefix)) = prefix

catalog == <<available_models, models_loaded>>

\* C1: with the catalog loaded, set_model(name) returns true and makes name
\* the current model exactly when name is in the catalog; for any other name
\* it returns false and current model, catalog and flag stay as they were.
C1_SetModelLoaded ==
    [][(ret'.op = "set_model" /\ models_loaded) =>
         /\ UNCHANGED catalog
         /\ IF ret'.arg \in Range(available_models)
              THEN ret'.value = TRUE /\ current_model' = ret'.arg
              ELSE ret'.value = FALSE /\ current_model' = current_model]_vars

C1_Witness ==
    /\ models_loaded /\ available_models # <<>>
    /\ ret.op = "set_model" /\ ret.arg = "gpt-x"
    /\ "gpt-x" \notin Range(available_models)
    /\ ret.value = FALSE /\ current_model # "gpt-x"

\* C2: with the catalog not loaded, set_model(name) returns true and makes
\* name the current model for every non-empty name, and returns false with
\* the current model unchanged only for the empty name.
C2_SetModelUnloaded ==
    [][(ret'.op = "set_model" /\ ~models_loaded) =>
         /\ UNCHANGED catalog
         /\ IF ret'.arg # ""
              THEN ret'.value = TRUE /\ current_model' = ret'.arg
              ELSE ret'.value = FALSE /\ current_model' = current_model]_vars

C2_Witness ==
    /\ ~models_loaded /\ ~last_fetch.attempted
    /\ ret.op = "set_model" /\ ret.arg = "gpt-x"
    /\ ret.value = TRUE /\ current_model = "gpt-x"

\* C3: in a sequential run list_models issues a fetch exactly when it is
\* called with the catalog unloaded, and leaves it loaded, so only the first
\* such call fetches (at most one fetch by list_models overall, whether it
\* succeeded or failed); every refresh_models call issues exactly one fetch.
C3_FetchOnlyOnFirstList ==
    [][/\ ret'.op = "list_models" =>
            /\ ret'.fetched = (IF models_loaded THEN 0 ELSE 1)
            /\ models_loaded'
       /\ ret'.op = "refresh_models" => ret'.fetched = 1
       /\ list_fetches' <= 1]_vars

C3_Witness ==
    /\ ret.op = "list_models" /\ ret.fetched = 0
    /\ list_fetches = 1 /\ ~last_fetch.ok /\ available_models = <<>>

\* C4: when the catalog fetch of a call fails, list_models returns the empty
\* sequence without raising and refresh_models returns false.
C4_FailedFetchReported ==
    (ret.fetched = 1 /\ ~last_fetch.ok) =>
        /\ ~ret.raised
        /\ ret.op = "list_models" => ret.value = <<>>
        /\ ret.op = "refresh_models" => ret.value = FALSE

\* C5: chat never raises; when the request fails or the reply cannot be
\* parsed (the client raises, choices is empty, the message is missing) it
\* returns a response with finish_reason "error", content starting with
\* "Error: " and no tool calls.
C5_ChatNeverRaises ==
    ret.op = "chat" =>
        /\ ~ret.raised
        /\ LET o == ret.arg.outcome
           IN  (\/ o.raises
                \/ o.response.choices = <<>>
                \/ ~o.response.choices[1].message.present) =>
                   /\ ret.value.finish_reason = "error"
                   /\ HasPrefix(ret.value.content, "Error: ")
                   /\ ret.value.tool_calls = <<>>

C5_Witness ==
    /\ ret.op = "chat" /\ ~ret.raised
    /\ ~ret.arg.outcome.raises /\ ret.arg.outcome.response.choices = <<>>
    /\ ret.value.finish_reason = "error"
    /\ ret.value.content = "Error: list index out of range"

\* C6: chat leaves default model, current model, catalog and flag as they
\* were, whatever its outcome; it transmits the override as the request's
\* model when one is given, and the current model when the override is
\* absent or empty.
C6_ChatFrame ==
    [][ret'.op = "chat" =>
         /\ UNCHANGED adapter
         /\ ret'.sent.model = (IF ret'.arg.model \notin {None, ""}
                                 THEN ret'.arg.model ELSE current_model)]_vars

C6_Witness ==
    /\ ret.op = "chat" /\ ret.arg.model = ""
    /\ current_model = "gpt-x" /\ ret.sent.model = "gpt-x"
    /\ default_model = "default" /\ ret.value.finish_reason = "error"

\* C7: in a sequential run, whenever the catalog is loaded it is the id list,
\* in server order, of the most recent fetch attempt if that succeeded, and
\* the empty sequence if it failed.
C7_CatalogIsLastFetch ==
    models_loaded =>
        /\ last_fetch.attempted
        /\ Len(available_models) = (IF last_fetch.ok THEN Len(last_fetch.data) ELSE 0)
        /\ \A i \in 1..Len(available_models) : available_models[i] = last_fetch.data[i].id

C7_Witness ==
    /\ models_loaded /\ last_fetch.ok
    /\ Len(available_models) >= 2 /\ available_models[1] # available_models[2]
    /\ ret.op = "set_model" /\ ret.value = TRUE

\* C8: the max_tokens transmitted by chat is max(1, max_tokens): 1 for every
\* input <= 0, the input itself for every input >= 1, never below 1.
C8_MaxTokensClamped ==
    ret.op = "chat" =>
        /\ ret.sent.max_tokens >= 1
        /\ ret.arg.max_tokens <= 0 => ret.sent.max_tokens = 1
        /\ ret.arg.max_tokens >= 1 => ret.sent.max_tokens = ret.arg.max_tokens

C8_Witness ==
    ret.op = "chat" /\ ret.arg.max_tokens < 0 /\ ret.sent.max_tokens = 1

\* C9 as stated: list_models issues at most one fetch over the adapter's
\* lifetime, also when list_models calls overlap.
C9_AtMostOneListFetch == list_fetches <= 1

\* C9 as amended: list_models issues a fetch exactly when the loaded flag is
\* unset as the call starts, so a fetch after the first is issued only while
\* an earlier list_models call is still awaiting its own; each such call
\* writes the catalog when its fetch returns.
C9_ListFetchWhileUnloaded ==
    [][/\ list_fetches' > list_fetches =>
            /\ ~models_loaded
            /\ list_fetches >= 1 =>
                 \E t \in 1..MaxTasks : tasks[t] = Awaiting("list_models")
       /\ (\E t \in 1..MaxTasks : tasks[t] = Awaiting("list_models") /\ tasks'[t] = Idle) =>
            /\ models_loaded'
            /\ available_models' = FetchModels(last_fetch')
       /\ (\E t \in 1..MaxTasks : tasks[t] = Idle /\ tasks'[t] = Awaiting("list_models")) =>
            /\ ~models_loaded
            /\ list_fetches' = list_fetches + 1
       /\ (ret' # ret /\ ret'.op = "list_models" /\ ret'.fetched = 0) =>
            models_loaded /\ list_fetches' = list_fetches]_vars

C9_Witness ==
    /\ list_fetches = 2 /\ models_loaded
    /\ \E t \in 1..MaxTasks : tasks[t] = Awaiting("list_models")

\* C10: the loaded flag is never reset, and while the catalog is loaded and
\* empty set_model returns false for every name and no call changes the
\* current model.
C10_LoadedMonotoneEmptyRejects ==
    [][/\ models_loaded => models_loaded'
       /\ (models_loaded /\ available_models = <<>>) =>
            /\ current_model' = current_model
            /\ ret'.op = "set_model" => ret'.value = FALSE]_vars

C10_Witness ==
    /\ models_loaded /\ available_models = <<>>
    /\ ret.op = "set_model" /\ ret.arg = current_model /\ ret.arg = default_model
    /\ ret.value = FALSE

====
